---- MODULE Spec2Model ----
(***************************************************************************)
(* The ERC20-style ledger of src/erc20: Amount (a validated decimal text), *)
(* the balances and allowances buckets, and the init / handle entry points.*)
(*                                                                         *)
(* Storage is the contract's key-value store: `balances` and `allowances`  *)
(* are functions whose DOMAIN is the set of keys present, `constants` and  *)
(* `total_supply` are singletons (a set holding zero or one value).        *)
(* A handler writes through to the store: a save that happened before a    *)
(* later step returned Err stays written when the handler returns.         *)
(***************************************************************************)
EXTENDS Integers, Sequences, FiniteSets, TLC

VARIABLES
    balances,         \* bucket "balances": address -> Amount
    allowances,       \* bucket "allowances"/owner: <<owner, spender>> -> Amount
    constants,        \* singleton "constants": {} or {Constants}
    total_supply,     \* singleton "total_supply": {} or {Amount}
    instantiated,     \* "no" before init, then "yes" (init returned Ok) or "failed"
    overflow_checks,  \* the build: TRUE when u128 overflow panics, FALSE when it wraps
    init_msg,         \* the InitMsg init was called with
    last,             \* the last call: its message, its signer and its result
    pre,              \* the store as it was when the last call began
    supply0,          \* sum of the balances when init returned Ok
    burned,           \* sum of the amounts of the burns that returned Ok
    nops,             \* number of handle() calls so far
    raw,              \* an Amount text under examination
    from_val,         \* the u128 `raw` was made from with Amount::from, or -1
    parsed,           \* what Amount::parse returned for `raw`, once called
    dns_store,        \* dns: PrefixedStorage "dns": domain -> owner
    erc_allowance,    \* dns: the ERC20's allowance_of(owner, DNS contract), per owner
    erc_balance,      \* dns: the ERC20's balance_of(address)
    messages,         \* dns: the messages of the last response not yet executed
    dns_last,         \* dns: the last call, its sender, its arguments and its result
    dns_pre,          \* dns: dns_store as it was when the last call began
    dns_ops,          \* dns: number of calls so far
    pot_config,       \* pot: CONFIG: {} or {Config}
    pot_seq,          \* pot: POT_SEQ: {} or {last pot id}
    pots,             \* pot: POTS: id -> Pot
    pot_last,         \* pot: the last call, its sender, its arguments and its result
    pot_pre,          \* pot: POT_SEQ and POTS as they were when the last call began
    pot_created,      \* pot: the CreatePot requests that returned Ok, in order
    granted,          \* <<owner, spender>> -> the amount of the pair's last Approve, or -1
    moved             \* <<owner, spender>> -> sum of the pair's TransferFroms that
                      \* returned Ok since that Approve

vars == <<balances, allowances, constants, total_supply, instantiated,
          overflow_checks, init_msg, last, pre, supply0, burned, nops,
          raw, from_val, parsed,
          dns_store, erc_allowance, erc_balance, messages, dns_last, dns_pre, dns_ops,
          pot_config, pot_seq, pots, pot_last, pot_pre, pot_created,
          granted, moved>>

\* The record of what each spender was granted and has moved since.
cap_vars == <<granted, moved>>

\* The variables of the ledger and of the calls made on it.
ledger_vars == <<balances, allowances, constants, total_supply, instantiated,
                 overflow_checks, init_msg, last, pre, supply0, burned, nops,
                 cap_vars>>

\* The variables of the Amount under examination.
amount_vars == <<raw, from_val, parsed>>

\* The variables of the DNS contract and of the ERC20 it talks to.
dns_vars == <<dns_store, erc_allowance, erc_balance, messages, dns_last, dns_pre, dns_ops>>

\* The variables of the pot contract.
pot_vars == <<pot_config, pot_seq, pots, pot_last, pot_pre, pot_created>>

\* The variables of the contracts other than the ERC20 ledger.
collab_vars == <<dns_vars, pot_vars>>

\* ------------------------------------------------------------------ bounds

\* Stands for u128::MAX (2^128 - 1): the model checker's integers are 32 bits
\* wide, so the width of an amount is scaled down; arithmetic wraps modulo
\* MaxU128 + 1 exactly where the u128 arithmetic of the code wraps.
MaxU128 == 15

\* Number of handle() calls explored after init().
MaxOps == 2

\* Longest Amount text examined on its own.
MaxLen == 2

\* ------------------------------------------------------------- value types

Addresses == {"A", "B", "C"}

DigitChars == <<"0", "1", "2", "3", "4", "5", "6", "7", "8", "9">>

IsDigit(c) == \E i \in 1..10 : DigitChars[i] = c

to_digit(c) == (CHOOSE i \in 1..10 : DigitChars[i] = c) - 1

Ok(v) == [ok |-> TRUE, val |-> v]

Err(e) == [ok |-> FALSE, err |-> e]

\* u128::from_str on the digits left after the optional sign: every character
\* must be a decimal digit; checked_mul(10) and checked_add(digit) refuse a
\* value above u128::MAX.  -1 stands for Err.
RECURSIVE parse_digits(_, _)
parse_digits(digits, acc) ==
    IF digits = <<>> THEN acc
    ELSE IF ~IsDigit(Head(digits)) THEN -1
    ELSE IF acc * 10 > MaxU128 THEN -1
    ELSE IF acc * 10 + to_digit(Head(digits)) > MaxU128 THEN -1
    ELSE parse_digits(Tail(digits), acc * 10 + to_digit(Head(digits)))

\* Mutant of from_str_u128: a text of more than one character that begins with
\* "0" is refused.
from_str_u128_strict(text) ==
    IF text = <<>> THEN -1
    ELSE IF Len(text) > 1 /\ Head(text) = "0" THEN -1
    ELSE IF Head(text) = "+"
         THEN IF Tail(text) = <<>> THEN -1 ELSE parse_digits(Tail(text), 0)
    ELSE parse_digits(text, 0)

\* str::parse::<u128>: the empty text and a lone sign are errors, one leading
\* "+" is accepted and skipped, "-" is no digit of an unsigned type.
from_str_u128(text) ==
    IF text = <<>> THEN -1
    ELSE IF Head(text) = "+"
         THEN IF Tail(text) = <<>> THEN -1 ELSE parse_digits(Tail(text), 0)
    ELSE parse_digits(text, 0)

\* u128::to_string: canonical decimal digits, no sign, no leading zeros.
RECURSIVE to_string(_)
to_string(n) ==
    IF n < 10 THEN <<DigitChars[n + 1]>>
    ELSE Append(to_string(n \div 10), DigitChars[(n % 10) + 1])

\* ------------------------------------------------------------------ Amount

\* Amount::parse
parse(amount) ==
    IF from_str_u128(amount) = -1
    THEN Err("ParseErr")
    ELSE Ok(from_str_u128(amount))

\* The numeric value of a well-formed Amount.
Val(amount) == parse(amount).val

\* Amount::validate
validate(amount) == parse(amount).ok

\* impl From<u128> for Amount
Amount_from(val) == to_string(val)

\* impl Default for Amount
Amount_default == <<"0">>

\* Mutant of subtract: the `here < there` guard is missing and the
\* subtraction wraps.
subtract_unguarded(self, other) ==
    LET here == parse(self)
        there == parse(other)
    IN  IF ~here.ok THEN Err("ParseErr")
        ELSE IF ~there.ok THEN Err("ParseErr")
        ELSE Ok(to_string((here.val + (MaxU128 + 1) - there.val) % (MaxU128 + 1)))

\* Amount::subtract
subtract(self, other) ==
    LET here == parse(self)
        there == parse(other)
    IN  IF ~here.ok THEN Err("ParseErr")
        ELSE IF ~there.ok THEN Err("ParseErr")
        ELSE IF here.val < there.val THEN Err("InsufficientFunds")
        ELSE Ok(Amount_from(here.val - there.val))

\* u128 `+`: with overflow checks compiled in the addition panics on overflow,
\* without them it wraps.  -1 stands for the panic.
u128_add(a, b) ==
    IF a + b <= MaxU128 THEN a + b
    ELSE IF overflow_checks THEN -1
    ELSE (a + b) % (MaxU128 + 1)

\* Amount::add
add(self, other) ==
    LET here == parse(self)
        there == parse(other)
    IN  IF ~here.ok THEN Err("ParseErr")
        ELSE IF ~there.ok THEN Err("ParseErr")
        ELSE IF u128_add(here.val, there.val) = -1 THEN Err("Panic")
        ELSE Ok(Amount_from(u128_add(here.val, there.val)))

\* ------------------------------------------------------------------ Bucket

EmptyBucket == [k \in {} |-> <<>>]

\* Bucket::save
save(bucket, key, value) ==
    [k \in DOMAIN bucket \cup {key} |-> IF k = key THEN value ELSE bucket[k]]

\* Bucket::load: a missing key is an error.
load(bucket, key) ==
    IF key \in DOMAIN bucket THEN Ok(bucket[key]) ELSE Err("NotFound")

\* ReadonlyBucket::may_load(..)?.unwrap_or_default()
may_load_or_default(bucket, key) ==
    IF key \in DOMAIN bucket THEN bucket[key] ELSE Amount_default

\* The tail of Bucket::update: the action's Err is returned and nothing is
\* saved, its Ok value is saved under the key.
update_finish(bucket, key, output) ==
    IF ~output.ok
    THEN [ok |-> FALSE, err |-> output.err, bucket |-> bucket]
    ELSE [ok |-> TRUE, err |-> "ok", bucket |-> save(bucket, key, output.val)]

\* Bucket::update(key, &|current: Amount| current.subtract(amount)): update
\* loads the current value, which is an error for a key that is missing (the
\* closure takes an Amount, not an Option), applies the action and saves.
update_subtract(bucket, key, amount) ==
    IF ~load(bucket, key).ok
    THEN [ok |-> FALSE, err |-> load(bucket, key).err, bucket |-> bucket]
    ELSE update_finish(bucket, key, subtract(load(bucket, key).val, amount))

\* Bucket::update(key, &|current: Amount| current.add(amount))
update_add(bucket, key, amount) ==
    IF ~load(bucket, key).ok
    THEN [ok |-> FALSE, err |-> load(bucket, key).err, bucket |-> bucket]
    ELSE update_finish(bucket, key, add(load(bucket, key).val, amount))

\* ---------------------------------------------------------------- contract

\* perform_transfer: the debit is saved by the first update before the second
\* one runs; an Err of the second update returns with the debit written.
perform_transfer(store, from, to, amount) ==
    LET debit == update_subtract(store, from, amount)
        credit == update_add(debit.bucket, to, amount)
    IN  IF ~debit.ok THEN [ok |-> FALSE, err |-> debit.err, balances |-> store]
        ELSE IF ~credit.ok
             THEN [ok |-> FALSE, err |-> credit.err, balances |-> debit.bucket]
        ELSE [ok |-> TRUE, err |-> "ok", balances |-> credit.bucket]

\* try_transfer
try_transfer(bal, sender, recipient, amount) ==
    IF ~validate(amount) THEN [res |-> "ParseErr", balances |-> bal]
    ELSE LET t == perform_transfer(bal, sender, recipient, amount)
         IN  [res |-> t.err, balances |-> t.balances]

\* Mutant of try_transfer_from: the allowance is compared with the amount but
\* the reduced allowance is not saved.
try_transfer_from_unmetered(bal, allow, spender, owner, recipient, amount) ==
    LET a == update_subtract(allow, <<owner, spender>>, amount)
        t == perform_transfer(bal, owner, recipient, amount)
    IN  IF ~a.ok THEN [res |-> a.err, balances |-> bal, allowances |-> allow]
        ELSE [res |-> t.err, balances |-> t.balances, allowances |-> allow]

\* try_transfer_from: the allowance is updated (and saved) first, then the
\* transfer is performed; the amount is not validated on its own.
try_transfer_from(bal, allow, spender, owner, recipient, amount) ==
    LET a == update_subtract(allow, <<owner, spender>>, amount)
        t == perform_transfer(bal, owner, recipient, amount)
    IN  IF ~a.ok THEN [res |-> a.err, balances |-> bal, allowances |-> allow]
        ELSE [res |-> t.err, balances |-> t.balances, allowances |-> a.bucket]

\* Mutant of try_approve: the amount is added to the stored allowance instead
\* of replacing it.
try_approve_additive(allow, owner, spender, amount) ==
    IF ~validate(amount) THEN [res |-> "ParseErr", allowances |-> allow]
    ELSE [res |-> "ok",
          allowances |-> save(allow, <<owner, spender>>,
              to_string((Val(may_load_or_default(allow, <<owner, spender>>))
                          + Val(amount)) % (MaxU128 + 1)))]

\* Mutant of try_approve: the bucket of the spender is opened instead of the
\* owner's, so the entry written is (spender, owner).
try_approve_swapped(allow, owner, spender, amount) ==
    IF ~validate(amount) THEN [res |-> "ParseErr", allowances |-> allow]
    ELSE [res |-> "ok", allowances |-> save(allow, <<spender, owner>>, amount)]

\* try_approve
try_approve(allow, owner, spender, amount) ==
    IF ~validate(amount) THEN [res |-> "ParseErr", allowances |-> allow]
    ELSE [res |-> "ok", allowances |-> save(allow, <<owner, spender>>, amount)]

\* Mutant of try_burn: the balance is not compared with the amount and the
\* subtraction wraps.
try_burn_unchecked(bal, total, sender, amount) ==
    LET amount_raw == parse(amount)
        account_balance == parse(may_load_or_default(bal, sender))
    IN  IF ~amount_raw.ok THEN [res |-> "InvalidAmount", balances |-> bal, total_supply |-> total]
        ELSE [res |-> "ok",
              balances |-> save(bal, sender,
                  Amount_from((account_balance.val + (MaxU128 + 1) - amount_raw.val)
                              % (MaxU128 + 1))),
              total_supply |-> {Amount_from((parse(t).val + (MaxU128 + 1) - amount_raw.val)
                                            % (MaxU128 + 1)) : t \in total}]

\* Burn, as the specification describes it: the amount is debited from the
\* caller's balance (an absent balance is zero) and the stored total supply is
\* decremented by the same amount, or the call fails and nothing is written.
try_burn(bal, total, sender, amount) ==
    LET amount_raw == parse(amount)
        account_balance == parse(may_load_or_default(bal, sender))
    IN  IF ~amount_raw.ok THEN [res |-> "InvalidAmount", balances |-> bal, total_supply |-> total]
        ELSE IF account_balance.val < amount_raw.val
             THEN [res |-> "InsufficientFunds", balances |-> bal, total_supply |-> total]
        ELSE [res |-> "ok",
              balances |-> save(bal, sender, Amount_from(account_balance.val - amount_raw.val)),
              total_supply |-> {Amount_from((parse(t).val + (MaxU128 + 1) - amount_raw.val)
                                            % (MaxU128 + 1)) : t \in total}]

\* is_valid_name: 3 to 30 bytes.
is_valid_name(name) == ~(Len(name) < 3 \/ Len(name) > 30)

\* is_valid_symbol: 3 to 6 bytes, each in 65..90 (A-Z).
is_valid_symbol(symbol) ==
    /\ ~(Len(symbol) < 3 \/ Len(symbol) > 6)
    /\ \A i \in 1..Len(symbol) : ~(symbol[i] < 65 \/ symbol[i] > 90)

\* The loop of init over msg.initial_balances: each row's amount is parsed, the
\* row's Amount is saved as given, and the parsed value is added to the running
\* u128 total with `+=`.  A row that fails to parse returns Err with the rows
\* before it saved.
RECURSIVE init_rows(_, _, _)
init_rows(bal, rows, total) ==
    IF rows = <<>> THEN [res |-> "ok", balances |-> bal, total |-> total]
    ELSE IF ~parse(Head(rows).amount).ok
         THEN [res |-> "ParseErr", balances |-> bal, total |-> total]
    ELSE IF u128_add(total, parse(Head(rows).amount).val) = -1
         THEN [res |-> "Panic",
               balances |-> save(bal, Head(rows).address, Head(rows).amount),
               total |-> total]
    ELSE init_rows(save(bal, Head(rows).address, Head(rows).amount),
                   Tail(rows),
                   u128_add(total, parse(Head(rows).amount).val))

\* init: the balances are written first, then name, symbol and decimals are
\* checked, then the constants and the total supply are saved.
init(msg) ==
    LET rows == init_rows(EmptyBucket, msg.initial_balances, 0)
        failed(e) == [res |-> e, balances |-> rows.balances,
                      constants |-> {}, total_supply |-> {}]
    IN  IF rows.res # "ok" THEN failed(rows.res)
        ELSE IF ~is_valid_name(msg.name) THEN failed("InvalidName")
        ELSE IF ~is_valid_symbol(msg.symbol) THEN failed("InvalidSymbol")
        ELSE IF msg.decimals > 18 THEN failed("InvalidDecimals")
        ELSE [res |-> "ok", balances |-> rows.balances,
              constants |-> {[name |-> msg.name, symbol |-> msg.symbol,
                              decimals |-> msg.decimals]},
              total_supply |-> {Amount_from(rows.total)}]

\* query: QueryMsg::Balance
query_balance(address) == may_load_or_default(balances, address)

\* Mutant of query_allowance: the spender's bucket is opened and the owner is
\* looked up in it.
query_allowance_swapped(owner, spender) ==
    may_load_or_default(allowances, <<spender, owner>>)

\* query: QueryMsg::Allowance
query_allowance(owner, spender) == may_load_or_default(allowances, <<owner, spender>>)

\* ------------------------------------------------------------------ inputs

\* Amount texts a request may carry: zero, one, a malformed text.
AmountTexts == {<<"0">>, <<"1">>, <<"x">>}

\* Strings are their bytes: "Ash", "As"; "ASH", "eth", "AS".
Names == {<<65, 115, 104>>, <<65, 115>>}

Symbols == {<<65, 83, 72>>, <<101, 116, 104>>, <<65, 83>>}

Decimals == {18, 19}

Row(a, t) == [address |-> a, amount |-> t]

\* Initial balance lists: two accounts, one of them with a zero balance (C has
\* no entry); two accounts holding u128::MAX each; a malformed second row; the
\* same address named twice.
BalanceLists ==
    { <<Row("A", <<"2">>), Row("B", <<"0">>)>>,
      <<Row("A", to_string(MaxU128)), Row("B", to_string(MaxU128))>>,
      <<Row("A", <<"1">>), Row("B", <<"x">>)>>,
      <<Row("A", <<"1">>), Row("A", <<"1">>)>> }

InitMsgs ==
    [name : Names, symbol : Symbols, decimals : Decimals,
     initial_balances : BalanceLists]

NoMsg == [name |-> <<>>, symbol |-> <<>>, decimals |-> 0, initial_balances |-> <<>>]

\* The characters of the Amount texts examined on their own: digits (those of
\* u128::MAX and of u128::MAX + 1 among them), the two signs, a letter.
AmountChars ==
    {"0", "1", "+", "-", "x"}
        \cup {to_string(MaxU128)[i] : i \in 1..Len(to_string(MaxU128))}
        \cup {to_string(MaxU128 + 1)[i] : i \in 1..Len(to_string(MaxU128 + 1))}

\* Every text of at most MaxLen of these characters, the empty text included.
Texts == UNION {[1..n -> AmountChars] : n \in 0..MaxLen}

\* Amount::parse has not been called.
NotParsed == [ok |-> FALSE, err |-> "none"]

\* A valid InitMsg: "Ash", "ASH", 18 decimals, A = 2 and B = 0.
DefaultMsg ==
    [name |-> <<65, 115, 104>>, symbol |-> <<65, 83, 72>>, decimals |-> 18,
     initial_balances |-> <<Row("A", <<"2">>), Row("B", <<"0">>)>>]

\* ------------------------------------------------------------------- state

\* No Approve and no TransferFrom recorded.
CapIdle ==
    /\ granted = EmptyBucket
    /\ moved = EmptyBucket

DnsCall(op, sender, buyer, domain, allowance, owner, res) ==
    [op |-> op, sender |-> sender, buyer |-> buyer, domain |-> domain,
     allowance |-> allowance, owner |-> owner, res |-> res]

\* The DNS contract is not deployed.
DnsIdle ==
    /\ dns_store = EmptyBucket
    /\ erc_allowance = EmptyBucket
    /\ erc_balance = EmptyBucket
    /\ messages = <<>>
    /\ dns_last = DnsCall("none", "-", "-", "-", -1, "-", "ok")
    /\ dns_pre = EmptyBucket
    /\ dns_ops = 0

PotCall(op, sender, target_addr, threshold, id, pot, res) ==
    [op |-> op, sender |-> sender, target_addr |-> target_addr,
     threshold |-> threshold, id |-> id, pot |-> pot, res |-> res]

\* The pot contract is not deployed.
PotIdle ==
    /\ pot_config = {}
    /\ pot_seq = {}
    /\ pots = EmptyBucket
    /\ pot_last = PotCall("none", "-", "-", 0, 0, {}, "ok")
    /\ pot_pre = [pot_seq |-> {}, pots |-> EmptyBucket]
    /\ pot_created = <<>>

Store == [balances |-> balances, allowances |-> allowances,
          constants |-> constants, total_supply |-> total_supply]

Call(op, sender, owner, recipient, spender, amount, res) ==
    [op |-> op, sender |-> sender, owner |-> owner, recipient |-> recipient,
     spender |-> spender, amount |-> amount, res |-> res]

\* The ERC20 ledger and the Amount under examination are not in use.
LedgerIdle ==
    /\ balances = EmptyBucket
    /\ allowances = EmptyBucket
    /\ constants = {}
    /\ total_supply = {}
    /\ instantiated = "no"
    /\ overflow_checks = TRUE
    /\ init_msg = NoMsg
    /\ last = Call("none", "-", "-", "-", "-", <<>>, "ok")
    /\ pre = [balances |-> EmptyBucket, allowances |-> EmptyBucket,
              constants |-> {}, total_supply |-> {}]
    /\ supply0 = 0
    /\ burned = 0
    /\ nops = 0
    /\ CapIdle
    /\ raw = <<>>
    /\ from_val = -1
    /\ parsed = NotParsed

RECURSIVE SumOver(_, _)
SumOver(bucket, keys) ==
    IF keys = {} THEN 0
    ELSE LET k == CHOOSE x \in keys : TRUE
         IN  parse(bucket[k]).val + SumOver(bucket, keys \ {k})

\* The sum of all balances of a ledger.
SumBalances(bucket) == SumOver(bucket, DOMAIN bucket)

Init ==
    /\ balances = EmptyBucket
    /\ allowances = EmptyBucket
    /\ constants = {}
    /\ total_supply = {}
    /\ instantiated = "no"
    /\ overflow_checks \in BOOLEAN
    /\ init_msg = NoMsg
    /\ last = Call("none", "-", "-", "-", "-", <<>>, "ok")
    /\ pre = [balances |-> EmptyBucket, allowances |-> EmptyBucket,
              constants |-> {}, total_supply |-> {}]
    /\ supply0 = 0
    /\ burned = 0
    /\ nops = 0
    /\ CapIdle
    /\ raw = <<>>
    /\ from_val = -1
    /\ parsed = NotParsed
    /\ DnsIdle
    /\ PotIdle

\* init(deps, params, msg), called once on the empty store.
InitCall ==
    /\ instantiated = "no"
    /\ \E msg \in InitMsgs :
         LET r == init(msg)
         IN  /\ balances' = r.balances
             /\ constants' = r.constants
             /\ total_supply' = r.total_supply
             /\ instantiated' = IF r.res = "ok" THEN "yes" ELSE "failed"
             /\ init_msg' = msg
             /\ last' = Call("init", "-", "-", "-", "-", <<>>, r.res)
             /\ supply0' = IF r.res = "ok" THEN SumBalances(r.balances) ELSE 0
    /\ pre' = Store
    /\ UNCHANGED <<allowances, overflow_checks, burned, nops>>
    /\ UNCHANGED amount_vars
    /\ UNCHANGED collab_vars
    /\ UNCHANGED cap_vars

\* handle(HandleMsg::Transfer { recipient, amount }) signed by sender.
Transfer ==
    /\ instantiated = "yes"
    /\ nops < MaxOps
    /\ \E sender \in Addresses, recipient \in Addresses, amount \in AmountTexts :
         LET r == try_transfer(balances, sender, recipient, amount)
         IN  /\ balances' = r.balances
             /\ last' = Call("transfer", sender, sender, recipient, "-", amount, r.res)
    /\ pre' = Store
    /\ nops' = nops + 1
    /\ UNCHANGED amount_vars
    /\ UNCHANGED collab_vars
    /\ UNCHANGED cap_vars
    /\ UNCHANGED <<allowances, constants, total_supply, instantiated,
                   overflow_checks, init_msg, supply0, burned>>

\* handle(HandleMsg::TransferFrom { owner, recipient, amount }) signed by spender.
TransferFrom ==
    /\ instantiated = "yes"
    /\ nops < MaxOps
    /\ \E spender \in Addresses, owner \in Addresses, recipient \in Addresses,
          amount \in AmountTexts :
         LET r == try_transfer_from(balances, allowances, spender, owner, recipient, amount)
         IN  /\ balances' = r.balances
             /\ allowances' = r.allowances
             /\ last' = Call("transfer_from", spender, owner, recipient, spender, amount, r.res)
    /\ pre' = Store
    /\ nops' = nops + 1
    /\ UNCHANGED amount_vars
    /\ UNCHANGED collab_vars
    /\ UNCHANGED cap_vars
    /\ UNCHANGED <<constants, total_supply, instantiated, overflow_checks,
                   init_msg, supply0, burned>>

\* Mutant of Approve: the amount is also saved under the key of the constants,
\* where no Constants record can be read afterwards.
ApproveOverConstants ==
    /\ instantiated = "yes"
    /\ nops < MaxOps
    /\ \E owner \in Addresses, spender \in Addresses, amount \in AmountTexts :
         LET r == try_approve(allowances, owner, spender, amount)
         IN  /\ allowances' = r.allowances
             /\ constants' = IF r.res = "ok" THEN {} ELSE constants
             /\ last' = Call("approve", owner, owner, "-", spender, amount, r.res)
    /\ pre' = Store
    /\ nops' = nops + 1
    /\ UNCHANGED amount_vars
    /\ UNCHANGED collab_vars
    /\ UNCHANGED cap_vars
    /\ UNCHANGED <<balances, total_supply, instantiated,
                   overflow_checks, init_msg, supply0, burned>>

\* handle(HandleMsg::Approve { spender, amount }) signed by owner.
Approve ==
    /\ instantiated = "yes"
    /\ nops < MaxOps
    /\ \E owner \in Addresses, spender \in Addresses, amount \in AmountTexts :
         LET r == try_approve(allowances, owner, spender, amount)
         IN  /\ allowances' = r.allowances
             /\ last' = Call("approve", owner, owner, "-", spender, amount, r.res)
    /\ pre' = Store
    /\ nops' = nops + 1
    /\ UNCHANGED amount_vars
    /\ UNCHANGED collab_vars
    /\ UNCHANGED cap_vars
    /\ UNCHANGED <<balances, constants, total_supply, instantiated,
                   overflow_checks, init_msg, supply0, burned>>

\* Burn { amount } signed by sender.
Burn ==
    /\ instantiated = "yes"
    /\ nops < MaxOps
    /\ \E sender \in Addresses, amount \in AmountTexts :
         LET r == try_burn(balances, total_supply, sender, amount)
         IN  /\ balances' = r.balances
             /\ total_supply' = r.total_supply
             /\ last' = Call("burn", sender, sender, "-", "-", amount, r.res)
             /\ burned' = IF r.res = "ok" THEN burned + parse(amount).val ELSE burned
    /\ pre' = Store
    /\ nops' = nops + 1
    /\ UNCHANGED amount_vars
    /\ UNCHANGED collab_vars
    /\ UNCHANGED cap_vars
    /\ UNCHANGED <<allowances, constants, instantiated, overflow_checks,
                   init_msg, supply0>>

\* query(QueryMsg::Balance { address }): the response carries the balance.
QueryBalance ==
    /\ instantiated = "yes"
    /\ nops < MaxOps
    /\ \E address \in Addresses :
         last' = Call("query_balance", "-", address, "-", "-", query_balance(address), "ok")
    /\ pre' = Store
    /\ nops' = nops + 1
    /\ UNCHANGED amount_vars
    /\ UNCHANGED collab_vars
    /\ UNCHANGED cap_vars
    /\ UNCHANGED <<balances, allowances, constants, total_supply, instantiated,
                   overflow_checks, init_msg, supply0, burned>>

\* query(QueryMsg::Allowance { owner, spender }): the response carries the
\* allowance.
QueryAllowance ==
    /\ instantiated = "yes"
    /\ nops < MaxOps
    /\ \E owner \in Addresses, spender \in Addresses :
         last' = Call("query_allowance", "-", owner, "-", spender,
                      query_allowance(owner, spender), "ok")
    /\ pre' = Store
    /\ nops' = nops + 1
    /\ UNCHANGED amount_vars
    /\ UNCHANGED collab_vars
    /\ UNCHANGED cap_vars
    /\ UNCHANGED <<balances, allowances, constants, total_supply, instantiated,
                   overflow_checks, init_msg, supply0, burned>>

Next ==
    \/ InitCall
    \/ Transfer
    \/ TransferFrom
    \/ Approve
    \/ Burn
    \/ QueryBalance
    \/ QueryAllowance

Spec == Init /\ [][Next]_vars

\* ------------------------------------------------- Amount, examined alone

\* The contract right after init(DefaultMsg) returned Ok, and an Amount made
\* from any text (Amount::from(&str), or deserialized from a request).
InitAmount ==
    /\ balances = init(DefaultMsg).balances
    /\ allowances = EmptyBucket
    /\ constants = init(DefaultMsg).constants
    /\ total_supply = init(DefaultMsg).total_supply
    /\ instantiated = "yes"
    /\ overflow_checks \in BOOLEAN
    /\ init_msg = DefaultMsg
    /\ last = Call("init", "-", "-", "-", "-", <<>>, "ok")
    /\ pre = [balances |-> EmptyBucket, allowances |-> EmptyBucket,
              constants |-> {}, total_supply |-> {}]
    /\ supply0 = SumBalances(init(DefaultMsg).balances)
    /\ burned = 0
    /\ nops = 0
    /\ CapIdle
    /\ raw \in Texts
    /\ from_val = -1
    /\ parsed = NotParsed
    /\ DnsIdle
    /\ PotIdle

\* Amount::from(val: u128)
AmountFrom ==
    /\ from_val = -1
    /\ parsed = NotParsed
    /\ nops = 0
    /\ \E val \in 0..MaxU128 :
         /\ from_val' = val
         /\ raw' = Amount_from(val)
    /\ UNCHANGED parsed
    /\ UNCHANGED ledger_vars
    /\ UNCHANGED collab_vars

\* Amount::parse(&self)
ParseText ==
    /\ parsed = NotParsed
    /\ parsed' = parse(raw)
    /\ UNCHANGED <<raw, from_val>>
    /\ UNCHANGED ledger_vars
    /\ UNCHANGED collab_vars

\* handle(HandleMsg::Approve { spender, amount }) signed by owner, the amount
\* being the Amount under examination.
ApproveText ==
    /\ instantiated = "yes"
    /\ nops = 0
    /\ \E owner \in Addresses, spender \in Addresses :
         LET r == try_approve(allowances, owner, spender, raw)
         IN  /\ allowances' = r.allowances
             /\ last' = Call("approve", owner, owner, "-", spender, raw, r.res)
    /\ pre' = Store
    /\ nops' = nops + 1
    /\ UNCHANGED <<balances, constants, total_supply, instantiated,
                   overflow_checks, init_msg, supply0, burned>>
    /\ UNCHANGED amount_vars
    /\ UNCHANGED collab_vars
    /\ UNCHANGED cap_vars

NextAmount == AmountFrom \/ ParseText \/ ApproveText

SpecAmount == InitAmount /\ [][NextAmount]_vars

\* ------------------------------------------- Approve and TransferFrom, at length

\* Number of handle() calls explored on the allowance of a pair.
MaxCapOps == 3

CapUsers == {"A", "B"}

CapAmounts == {<<"1">>, <<"2">>}

CapPairs == CapUsers \X CapUsers

\* The contract right after init(DefaultMsg) returned Ok; nothing granted.
InitCap ==
    /\ balances = init(DefaultMsg).balances
    /\ allowances = EmptyBucket
    /\ constants = init(DefaultMsg).constants
    /\ total_supply = init(DefaultMsg).total_supply
    /\ instantiated = "yes"
    /\ overflow_checks \in BOOLEAN
    /\ init_msg = DefaultMsg
    /\ last = Call("init", "-", "-", "-", "-", <<>>, "ok")
    /\ pre = [balances |-> EmptyBucket, allowances |-> EmptyBucket,
              constants |-> {}, total_supply |-> {}]
    /\ supply0 = SumBalances(init(DefaultMsg).balances)
    /\ burned = 0
    /\ nops = 0
    /\ granted = [p \in CapPairs |-> -1]
    /\ moved = [p \in CapPairs |-> 0]
    /\ raw = <<>>
    /\ from_val = -1
    /\ parsed = NotParsed
    /\ DnsIdle
    /\ PotIdle

\* handle(HandleMsg::Approve { spender, amount }) signed by owner; an Approve
\* that returned Ok opens a new period for the pair.
CapApprove ==
    /\ nops < MaxCapOps
    /\ \E owner \in CapUsers, spender \in CapUsers, amount \in CapAmounts :
         LET r == try_approve(allowances, owner, spender, amount)
         IN  /\ allowances' = r.allowances
             /\ last' = Call("approve", owner, owner, "-", spender, amount, r.res)
             /\ granted' = IF r.res = "ok"
                           THEN [granted EXCEPT ![<<owner, spender>>] = Val(amount)]
                           ELSE granted
             /\ moved' = IF r.res = "ok"
                         THEN [moved EXCEPT ![<<owner, spender>>] = 0]
                         ELSE moved
    /\ pre' = Store
    /\ nops' = nops + 1
    /\ UNCHANGED <<balances, constants, total_supply, instantiated,
                   overflow_checks, init_msg, supply0, burned>>
    /\ UNCHANGED amount_vars
    /\ UNCHANGED collab_vars

\* handle(HandleMsg::TransferFrom { owner, recipient, amount }) signed by
\* spender; the amount of a call that returned Ok is added to what the spender
\* moved for the owner.
CapTransferFrom ==
    /\ nops < MaxCapOps
    /\ \E spender \in CapUsers, owner \in CapUsers, recipient \in CapUsers,
          amount \in CapAmounts :
         LET r == try_transfer_from(balances, allowances, spender, owner, recipient, amount)
         IN  /\ balances' = r.balances
             /\ allowances' = r.allowances
             /\ last' = Call("transfer_from", spender, owner, recipient, spender, amount, r.res)
             /\ moved' = IF r.res = "ok"
                         THEN [moved EXCEPT ![<<owner, spender>>] = @ + Val(amount)]
                         ELSE moved
    /\ pre' = Store
    /\ nops' = nops + 1
    /\ UNCHANGED <<constants, total_supply, instantiated, overflow_checks,
                   init_msg, supply0, burned, granted>>
    /\ UNCHANGED amount_vars
    /\ UNCHANGED collab_vars

NextCap == CapApprove \/ CapTransferFrom

SpecCap == InitCap /\ [][NextCap]_vars

\* -------------------------------------------------------------- DNS contract

\* Number of calls explored on the DNS contract and its ERC20.
MaxDnsOps == 4

\* The allowance try_sell requires of the buyer.
RequiredAllowance == 500

\* The amount of the TransferFrom try_sell emits.
Price == 500

DnsUsers == {"A", "B"}

Domains == {"d1", "d2"}

\* Allowances a buyer may give the DNS contract, and balances the accounts of
\* the ERC20 start with.
DnsAmounts == {0, 499, 500}

DnsBalances == {400, 888}

\* ActorMsg::TransferFrom { owner, recipient, amount }, sent to the ERC20.
TransferFromMsg(owner, recipient, amount) ==
    [op |-> "transfer_from", owner |-> owner, recipient |-> recipient,
     amount |-> amount]

\* get_domain
get_domain(registry, domain) ==
    IF domain \in DOMAIN registry THEN Ok(registry[domain]) ELSE Err("NotFound")

\* Mutant of try_register: the domain is not looked up first.
try_register_overwrite(registry, sender, domain) ==
    [res |-> "ok", store |-> save(registry, domain, sender), messages |-> <<>>]

\* try_register
try_register(registry, sender, domain) ==
    IF get_domain(registry, domain).ok
    THEN [res |-> "AlreadyRegistered", store |-> registry, messages |-> <<>>]
    ELSE [res |-> "ok", store |-> save(registry, domain, sender), messages |-> <<>>]

\* Mutant of try_sell: the sender is not compared with the owner.
try_sell_any_sender(registry, sender, buyer, domain, allowance) ==
    IF ~get_domain(registry, domain).ok
    THEN [res |-> "NotRegistered", store |-> registry, messages |-> <<>>]
    ELSE IF allowance < RequiredAllowance
    THEN [res |-> "InsufficientAllowance", store |-> registry, messages |-> <<>>]
    ELSE [res |-> "ok",
          store |-> save(registry, domain, buyer),
          messages |-> <<TransferFromMsg(buyer, sender, Price)>>]

\* Mutant of try_sell: the allowance is compared with one less than required.
try_sell_off_by_one(registry, sender, buyer, domain, allowance) ==
    IF ~get_domain(registry, domain).ok
    THEN [res |-> "NotRegistered", store |-> registry, messages |-> <<>>]
    ELSE IF get_domain(registry, domain).val # sender
    THEN [res |-> "PermissionDenied", store |-> registry, messages |-> <<>>]
    ELSE IF allowance < RequiredAllowance - 1
    THEN [res |-> "InsufficientAllowance", store |-> registry, messages |-> <<>>]
    ELSE [res |-> "ok",
          store |-> save(registry, domain, buyer),
          messages |-> <<TransferFromMsg(buyer, sender, Price)>>]

\* Mutant of try_sell: an allowance equal to the required one is refused.
try_sell_strict(registry, sender, buyer, domain, allowance) ==
    IF ~get_domain(registry, domain).ok
    THEN [res |-> "NotRegistered", store |-> registry, messages |-> <<>>]
    ELSE IF get_domain(registry, domain).val # sender
    THEN [res |-> "PermissionDenied", store |-> registry, messages |-> <<>>]
    ELSE IF allowance <= RequiredAllowance
    THEN [res |-> "InsufficientAllowance", store |-> registry, messages |-> <<>>]
    ELSE [res |-> "ok",
          store |-> save(registry, domain, buyer),
          messages |-> <<TransferFromMsg(buyer, sender, Price)>>]

\* Mutant of try_sell: the owner is changed before the allowance is compared
\* with the requirement, so a refused sale leaves the buyer as owner.
try_sell_early_write(registry, sender, buyer, domain, allowance) ==
    IF ~get_domain(registry, domain).ok
    THEN [res |-> "NotRegistered", store |-> registry, messages |-> <<>>]
    ELSE IF get_domain(registry, domain).val # sender
    THEN [res |-> "PermissionDenied", store |-> registry, messages |-> <<>>]
    ELSE IF allowance < RequiredAllowance
    THEN [res |-> "InsufficientAllowance", store |-> save(registry, domain, buyer),
          messages |-> <<>>]
    ELSE [res |-> "ok",
          store |-> save(registry, domain, buyer),
          messages |-> <<TransferFromMsg(buyer, sender, Price)>>]

\* try_sell: the domain must be registered and owned by the sender; the
\* buyer's allowance for the DNS contract, as the ERC20 answers the query, must
\* be at least 500; then the owner is changed and the response carries the
\* TransferFrom for the ERC20.
try_sell(registry, sender, buyer, domain, allowance) ==
    IF ~get_domain(registry, domain).ok
    THEN [res |-> "NotRegistered", store |-> registry, messages |-> <<>>]
    ELSE IF get_domain(registry, domain).val # sender
    THEN [res |-> "PermissionDenied", store |-> registry, messages |-> <<>>]
    ELSE IF allowance < RequiredAllowance
    THEN [res |-> "InsufficientAllowance", store |-> registry, messages |-> <<>>]
    ELSE [res |-> "ok",
          store |-> save(registry, domain, buyer),
          messages |-> <<TransferFromMsg(buyer, sender, Price)>>]

\* query_domain
query_domain(registry, domain) ==
    IF ~get_domain(registry, domain).ok THEN Err("NotRegistered")
    ELSE Ok(get_domain(registry, domain).val)

\* Approve { spender: DNS contract, amount } as the ERC20 handles it: the
\* allowance is overwritten.
erc_approve(allow, owner, amount) == save(allow, owner, amount)

\* TransferFrom { owner, recipient, amount } sent by the DNS contract, as the
\* ERC20 handles it: the allowance of the DNS contract, then the owner's
\* balance, must cover the amount; a refused request writes nothing.
erc_transfer_from(bal, allow, owner, recipient, amount) ==
    IF allow[owner] < amount
    THEN [res |-> "InsufficientAllowance", balances |-> bal, allowances |-> allow]
    ELSE IF bal[owner] < amount
    THEN [res |-> "InsufficientFunds", balances |-> bal, allowances |-> allow]
    ELSE [res |-> "ok",
          balances |-> [a \in DOMAIN bal |->
                           bal[a] - (IF a = owner THEN amount ELSE 0)
                                  + (IF a = recipient THEN amount ELSE 0)],
          allowances |-> save(allow, owner, allow[owner] - amount)]

\* The DNS contract after init saved its configuration, and the ERC20 after
\* its own init: no domain, no allowance.
InitDns ==
    /\ LedgerIdle
    /\ PotIdle
    /\ dns_store = EmptyBucket
    /\ erc_allowance = [a \in DnsUsers |-> 0]
    /\ erc_balance \in [DnsUsers -> DnsBalances]
    /\ messages = <<>>
    /\ dns_last = DnsCall("init", "-", "-", "-", -1, "-", "ok")
    /\ dns_pre = EmptyBucket
    /\ dns_ops = 0

\* handle(HandleMsg::RegisterDomain { domain }) sent by sender.
RegisterDomain ==
    /\ messages = <<>>
    /\ dns_ops < MaxDnsOps
    /\ \E sender \in DnsUsers, domain \in Domains :
         LET r == try_register(dns_store, sender, domain)
         IN  /\ dns_store' = r.store
             /\ messages' = r.messages
             /\ dns_last' = DnsCall("register", sender, "-", domain, -1, "-", r.res)
    /\ dns_pre' = dns_store
    /\ dns_ops' = dns_ops + 1
    /\ UNCHANGED <<erc_allowance, erc_balance>>
    /\ UNCHANGED <<ledger_vars, amount_vars, pot_vars>>

\* handle(HandleMsg::SellDomain { buyer, domain }) sent by sender; the querier
\* answers with the ERC20's allowance_of(buyer, DNS contract).
SellDomain ==
    /\ messages = <<>>
    /\ dns_ops < MaxDnsOps
    /\ \E sender \in DnsUsers, buyer \in DnsUsers, domain \in Domains :
         LET r == try_sell(dns_store, sender, buyer, domain, erc_allowance[buyer])
         IN  /\ dns_store' = r.store
             /\ messages' = r.messages
             /\ dns_last' = DnsCall("sell", sender, buyer, domain,
                                    erc_allowance[buyer], "-", r.res)
    /\ dns_pre' = dns_store
    /\ dns_ops' = dns_ops + 1
    /\ UNCHANGED <<erc_allowance, erc_balance>>
    /\ UNCHANGED <<ledger_vars, amount_vars, pot_vars>>

\* query(QueryMsg::GetOwner { domain })
GetOwner ==
    /\ messages = <<>>
    /\ dns_ops < MaxDnsOps
    /\ \E domain \in Domains :
         LET r == query_domain(dns_store, domain)
         IN  dns_last' = DnsCall("get_owner", "-", "-", domain, -1,
                                 IF r.ok THEN r.val ELSE "-",
                                 IF r.ok THEN "ok" ELSE r.err)
    /\ dns_pre' = dns_store
    /\ dns_ops' = dns_ops + 1
    /\ UNCHANGED <<dns_store, messages, erc_allowance, erc_balance>>
    /\ UNCHANGED <<ledger_vars, amount_vars, pot_vars>>

\* Approve { spender: DNS contract, amount } sent to the ERC20 by owner.
ErcApprove ==
    /\ messages = <<>>
    /\ dns_ops < MaxDnsOps
    /\ \E owner \in DnsUsers, amount \in DnsAmounts :
         /\ erc_allowance' = erc_approve(erc_allowance, owner, amount)
         /\ dns_last' = DnsCall("erc_approve", owner, "-", "-", amount, "-", "ok")
    /\ dns_pre' = dns_store
    /\ dns_ops' = dns_ops + 1
    /\ UNCHANGED <<dns_store, messages, erc_balance>>
    /\ UNCHANGED <<ledger_vars, amount_vars, pot_vars>>

\* The host executes the message of the response: the ERC20 handles the
\* TransferFrom sent by the DNS contract; its own response has no message.
ExecuteMessage ==
    /\ messages # <<>>
    /\ LET m == Head(messages)
           r == erc_transfer_from(erc_balance, erc_allowance, m.owner, m.recipient, m.amount)
       IN  /\ erc_balance' = r.balances
           /\ erc_allowance' = r.allowances
           /\ dns_last' = [dns_last EXCEPT !.op = "execute", !.res = r.res]
    /\ messages' = Tail(messages)
    /\ dns_pre' = dns_store
    /\ UNCHANGED <<dns_store, dns_ops>>
    /\ UNCHANGED <<ledger_vars, amount_vars, pot_vars>>

NextDns ==
    \/ RegisterDomain
    \/ SellDomain
    \/ GetOwner
    \/ ErcApprove
    \/ ExecuteMessage

SpecDns == InitDns /\ [][NextDns]_vars

\* -------------------------------------------------------------- pot contract

\* Number of calls explored on the pot contract after instantiate.
MaxPotOps == 3

\* The admin of an InstantiateMsg: None, or an address.
Admins == {"none"} \cup Addresses

\* Target addresses of a CreatePot; the empty one does not validate.
Targets == {"T1", "T2", ""}

Thresholds == {100, 200}

\* deps.api.addr_validate
addr_validate(addr) == addr # ""

\* Mutant of instantiate: the pot sequence starts at 1.
instantiate_from_one(sender, admin) ==
    [config |-> {[owner |-> IF admin # "none" /\ addr_validate(admin)
                            THEN admin ELSE sender,
                  cw20_addr |-> "cw20"]},
     pot_seq |-> {1}]

\* instantiate: the owner is the admin when one is given and validates, the
\* sender otherwise; the pot sequence is saved as 0.
instantiate(sender, admin) ==
    [config |-> {[owner |-> IF admin # "none" /\ addr_validate(admin)
                            THEN admin ELSE sender,
                  cw20_addr |-> "cw20"]},
     pot_seq |-> {0}]

\* save_pot: the pot is stored under the id following the last pot id, which
\* POT_SEQ then holds.
save_pot(seq, store, pot) ==
    [pot_seq |-> {id + 1 : id \in seq},
     pots |-> save(store, (CHOOSE id \in seq : TRUE) + 1, pot)]

\* Mutant of execute_create_pot: the sender is not compared with the owner.
execute_create_pot_open(config, seq, store, sender, target_addr, threshold) ==
    IF config = {} THEN [res |-> "NotFound", pot_seq |-> seq, pots |-> store]
    ELSE IF ~addr_validate(target_addr)
    THEN [res |-> "InvalidAddress", pot_seq |-> seq, pots |-> store]
    ELSE LET saved == save_pot(seq, store,
                               [target_addr |-> target_addr, threshold |-> threshold,
                                collected |-> 0, ready |-> FALSE])
         IN  [res |-> "ok", pot_seq |-> saved.pot_seq, pots |-> saved.pots]

\* execute_create_pot
execute_create_pot(config, seq, store, sender, target_addr, threshold) ==
    IF config = {} THEN [res |-> "NotFound", pot_seq |-> seq, pots |-> store]
    ELSE IF \E c \in config : c.owner # sender
    THEN [res |-> "Unauthorized", pot_seq |-> seq, pots |-> store]
    ELSE IF ~addr_validate(target_addr)
    THEN [res |-> "InvalidAddress", pot_seq |-> seq, pots |-> store]
    ELSE LET saved == save_pot(seq, store,
                               [target_addr |-> target_addr, threshold |-> threshold,
                                collected |-> 0, ready |-> FALSE])
         IN  [res |-> "ok", pot_seq |-> saved.pot_seq, pots |-> saved.pots]

\* query_pot: POTS.load fails for an id that has no pot.
query_pot(store, id) ==
    IF id \in DOMAIN store THEN Ok(store[id]) ELSE Err("NotFound")

\* The pot contract before instantiate.
InitPot ==
    /\ LedgerIdle
    /\ DnsIdle
    /\ PotIdle

\* instantiate(deps, env, info, InstantiateMsg { admin, cw20_addr })
PotInstantiate ==
    /\ pot_config = {}
    /\ \E sender \in Addresses, admin \in Admins :
         LET r == instantiate(sender, admin)
         IN  /\ pot_config' = r.config
             /\ pot_seq' = r.pot_seq
             /\ pot_last' = PotCall("instantiate", sender, admin, 0, 0, {}, "ok")
    /\ pot_pre' = [pot_seq |-> pot_seq, pots |-> pots]
    /\ UNCHANGED <<pots, pot_created>>
    /\ UNCHANGED <<ledger_vars, amount_vars, dns_vars>>

\* execute(ExecuteMsg::CreatePot { target_addr, threshold }) sent by sender.
CreatePot ==
    /\ pot_config # {}
    /\ Len(pot_created) < MaxPotOps
    /\ \E sender \in Addresses, target_addr \in Targets, threshold \in Thresholds :
         LET r == execute_create_pot(pot_config, pot_seq, pots, sender,
                                     target_addr, threshold)
         IN  /\ pot_seq' = r.pot_seq
             /\ pots' = r.pots
             /\ pot_last' = PotCall("create_pot", sender, target_addr, threshold,
                                    0, {}, r.res)
             /\ pot_created' = IF r.res = "ok"
                               THEN Append(pot_created,
                                           [target_addr |-> target_addr,
                                            threshold |-> threshold])
                               ELSE pot_created
    /\ pot_pre' = [pot_seq |-> pot_seq, pots |-> pots]
    /\ UNCHANGED pot_config
    /\ UNCHANGED <<ledger_vars, amount_vars, dns_vars>>

\* query(QueryMsg::GetPot { id })
GetPot ==
    /\ pot_config # {}
    /\ \E id \in 0..(MaxPotOps + 1) :
         LET r == query_pot(pots, id)
         IN  pot_last' = PotCall("get_pot", "-", "-", 0, id,
                                 IF r.ok THEN {r.val} ELSE {},
                                 IF r.ok THEN "ok" ELSE r.err)
    /\ pot_pre' = [pot_seq |-> pot_seq, pots |-> pots]
    /\ UNCHANGED <<pot_config, pot_seq, pots, pot_created>>
    /\ UNCHANGED <<ledger_vars, amount_vars, dns_vars>>

NextPot == PotInstantiate \/ CreatePot \/ GetPot

SpecPot == InitPot /\ [][NextPot]_vars

\* ------------------------------------------------------------ observations

\* BalanceOf(address) on a ledger: the stored balance, zero when absent.
BalanceIn(bucket, address) == Val(may_load_or_default(bucket, address))

\* AllowanceOf(owner, spender) on an allowance table.
AllowanceIn(bucket, owner, spender) == Val(may_load_or_default(bucket, <<owner, spender>>))

HandleOps == {"transfer", "transfer_from", "approve", "burn"}

\* The errors init returns for a bad name, symbol or decimals.
InvalidConfig == {"InvalidName", "InvalidSymbol", "InvalidDecimals"}

\* ------------------------------------------------------------------ claims

\* C1: conservation.  Once init has returned Ok, after any sequence of
\* Transfer, TransferFrom, Approve and Burn calls the sum of all balances
\* equals the supply the ledger was initialized with minus the burned amounts.
C1_Conservation ==
    instantiated = "yes" => SumBalances(balances) = supply0 - burned

\* C2: a failed Transfer, TransferFrom, Approve or Burn leaves the ledger and
\* the allowance table exactly as they were when the call began.
C2_FailedCallLeavesStore ==
    (last.op \in HandleOps /\ last.res # "ok")
        => (balances = pre.balances /\ allowances = pre.allowances)

\* C3: after a failed TransferFrom, allowance_of(owner, caller) is what it was
\* before the call (a consumed allowance is rolled back).
C3_FailedTransferFromKeepsAllowance ==
    (last.op = "transfer_from" /\ last.res # "ok")
        => may_load_or_default(allowances, <<last.owner, last.sender>>)
             = may_load_or_default(pre.allowances, <<last.owner, last.sender>>)

\* A well-formed request amount.
WellFormed(amount) == parse(amount).ok

\* Every balance other than those of the addresses in `touched` is as it was
\* when the last call began (same keys present, same values).
OtherBalancesKept(touched) ==
    /\ DOMAIN balances \ touched = DOMAIN pre.balances \ touched
    /\ \A a \in DOMAIN balances \ touched : balances[a] = pre.balances[a]

\* Every allowance entry other than those of the pairs in `touched` is as it was.
OtherAllowancesKept(touched) ==
    /\ DOMAIN allowances \ touched = DOMAIN pre.allowances \ touched
    /\ \A k \in DOMAIN allowances \ touched : allowances[k] = pre.allowances[k]

\* C4: authorization gate.  A TransferFrom whose amount exceeds
\* allowance_of(owner, caller) fails with InsufficientAllowance and changes no
\* balance, for every caller, owner and recipient.
C4_AllowanceGate ==
    ( /\ last.op = "transfer_from"
      /\ WellFormed(last.amount)
      /\ AllowanceIn(pre.allowances, last.owner, last.sender) < Val(last.amount) )
        => (last.res = "InsufficientAllowance" /\ balances = pre.balances)

\* C5: a successful TransferFrom by s from o to r # o of v lowers balance_of(o)
\* by v, raises balance_of(r) by v, lowers allowance_of(o, s) by v and changes
\* no other balance and no other allowance entry.
C5_TransferFromEffect ==
    ( /\ last.op = "transfer_from"
      /\ last.res = "ok"
      /\ last.owner # last.recipient )
        => /\ BalanceIn(balances, last.owner)
                = BalanceIn(pre.balances, last.owner) - Val(last.amount)
           /\ BalanceIn(balances, last.recipient)
                = BalanceIn(pre.balances, last.recipient) + Val(last.amount)
           /\ AllowanceIn(allowances, last.owner, last.sender)
                = AllowanceIn(pre.allowances, last.owner, last.sender) - Val(last.amount)
           /\ OtherBalancesKept({last.owner, last.recipient})
           /\ OtherAllowancesKept({<<last.owner, last.sender>>})

\* C6: a successful Transfer by the caller to another recipient of v lowers
\* balance_of(caller) by v, raises balance_of(recipient) by v and changes no
\* other balance, no allowance entry, neither the constants nor the stored
\* total supply.
C6_TransferEffect ==
    ( /\ last.op = "transfer"
      /\ last.res = "ok"
      /\ last.sender # last.recipient )
        => /\ BalanceIn(balances, last.sender)
                = BalanceIn(pre.balances, last.sender) - Val(last.amount)
           /\ BalanceIn(balances, last.recipient)
                = BalanceIn(pre.balances, last.recipient) + Val(last.amount)
           /\ OtherBalancesKept({last.sender, last.recipient})
           /\ allowances = pre.allowances
           /\ constants = pre.constants
           /\ total_supply = pre.total_supply

\* The recipient's credit would pass u128::MAX (after the debit, when the
\* recipient is the sender itself).
CreditOverflows ==
    IF last.sender = last.recipient
    THEN FALSE
    ELSE BalanceIn(pre.balances, last.recipient) + Val(last.amount) > MaxU128

\* C7: a Transfer with a well-formed amount fails with InsufficientFunds when
\* balance_of(caller) < amount, and succeeds when balance_of(caller) >= amount
\* and the credit does not overflow.
C7_TransferOutcome ==
    (last.op = "transfer" /\ WellFormed(last.amount))
        => /\ BalanceIn(pre.balances, last.sender) < Val(last.amount)
                => last.res = "InsufficientFunds"
           /\ ( /\ BalanceIn(pre.balances, last.sender) >= Val(last.amount)
                /\ ~CreditOverflows )
                => last.res = "ok"

\* Every Amount stored in the bucket parses to a value in 0..u128::MAX.
AllInRange(bucket) ==
    \A k \in DOMAIN bucket :
        /\ parse(bucket[k]).ok
        /\ Val(bucket[k]) >= 0
        /\ Val(bucket[k]) <= MaxU128

\* C8: no negative balance and no underflow.  Every stored balance and every
\* stored allowance is a value in 0..u128::MAX, and a debit or an allowance
\* consumption of v either leaves the value as it was or stores exactly the
\* old value minus v, which is not below zero (never a wrapped-around value).
C8_NoUnderflow ==
    /\ AllInRange(balances)
    /\ AllInRange(allowances)
    /\ (last.op \in {"transfer", "transfer_from", "burn"}
          /\ WellFormed(last.amount) /\ last.owner # last.recipient)
         => \/ BalanceIn(balances, last.owner) = BalanceIn(pre.balances, last.owner)
            \/ /\ BalanceIn(pre.balances, last.owner) - Val(last.amount) >= 0
               /\ BalanceIn(balances, last.owner)
                    = BalanceIn(pre.balances, last.owner) - Val(last.amount)
    /\ (last.op = "transfer_from" /\ WellFormed(last.amount))
         => \/ AllowanceIn(allowances, last.owner, last.sender)
                 = AllowanceIn(pre.allowances, last.owner, last.sender)
            \/ /\ AllowanceIn(pre.allowances, last.owner, last.sender)
                    - Val(last.amount) >= 0
               /\ AllowanceIn(allowances, last.owner, last.sender)
                    = AllowanceIn(pre.allowances, last.owner, last.sender)
                        - Val(last.amount)

\* C8 witness: a Transfer of more than the sender's stored balance was refused
\* by the debit.
C8_Witness ==
    /\ last.op = "transfer"
    /\ last.sender \in DOMAIN pre.balances
    /\ WellFormed(last.amount)
    /\ BalanceIn(pre.balances, last.sender) < Val(last.amount)
    /\ last.res = "InsufficientFunds"

\* C9: a Transfer or TransferFrom to a recipient that has no ledger entry
\* succeeds when the debit side is sufficient, and the recipient's balance is
\* then the transferred amount.
C9_CreditCreatesEntry ==
    ( /\ last.op \in {"transfer", "transfer_from"}
      /\ WellFormed(last.amount)
      /\ last.recipient \notin DOMAIN pre.balances
      /\ BalanceIn(pre.balances, last.owner) >= Val(last.amount)
      /\ last.op = "transfer_from"
           => AllowanceIn(pre.allowances, last.owner, last.sender) >= Val(last.amount) )
        => /\ last.res = "ok"
           /\ last.recipient \in DOMAIN balances
           /\ BalanceIn(balances, last.recipient) = Val(last.amount)

\* C10: Approve overwrites and is idempotent.  After a successful
\* Approve(spender, v) by the owner, allowance_of(owner, spender) is v whatever
\* the entry held before; and an Approve issued in the state a same Approve
\* leaves (the entry already holds v) changes nothing.
C10_ApproveOverwrites ==
    (last.op = "approve" /\ last.res = "ok")
        => /\ query_allowance(last.owner, last.spender) = last.amount
           /\ AllowanceIn(allowances, last.owner, last.spender) = Val(last.amount)
           /\ ( /\ <<last.owner, last.spender>> \in DOMAIN pre.allowances
                /\ pre.allowances[<<last.owner, last.spender>>] = last.amount )
                => Store = pre

\* C10 witness: a successful Approve of zero replaced a larger allowance.
C10_Witness ==
    /\ last.op = "approve"
    /\ last.res = "ok"
    /\ Val(last.amount) = 0
    /\ <<last.owner, last.spender>> \in DOMAIN pre.allowances
    /\ AllowanceIn(pre.allowances, last.owner, last.spender) > 0
    /\ AllowanceIn(allowances, last.owner, last.spender) = 0

\* C11: Approve makes no balance check and touches one entry.  An Approve with
\* a well-formed amount succeeds whatever the caller's balance is (also when
\* the caller has no ledger entry), and it changes only the (caller, spender)
\* allowance entry: every balance and every other allowance entry is as before.
C11_ApproveFrame ==
    (last.op = "approve" /\ WellFormed(last.amount))
        => /\ last.res = "ok"
           /\ balances = pre.balances
           /\ OtherAllowancesKept({<<last.owner, last.spender>>})
           /\ <<last.owner, last.spender>> \in DOMAIN allowances
           /\ constants = pre.constants
           /\ total_supply = pre.total_supply

\* C11 witness: an owner without a ledger entry approved more than its balance
\* for a spender other than itself, while another allowance entry existed.
C11_Witness ==
    /\ last.op = "approve"
    /\ last.res = "ok"
    /\ last.owner # last.spender
    /\ last.owner \notin DOMAIN pre.balances
    /\ Val(last.amount) > BalanceIn(pre.balances, last.owner)
    /\ DOMAIN pre.allowances \ {<<last.owner, last.spender>>} # {}

\* C12: self-transfer.  A Transfer whose recipient is the caller succeeds for
\* every amount up to balance_of(caller), the whole balance included, and
\* leaves balance_of(caller) as it was; it fails with InsufficientFunds when
\* the amount exceeds balance_of(caller).
C12_SelfTransfer ==
    (last.op = "transfer" /\ last.sender = last.recipient /\ WellFormed(last.amount))
        => /\ Val(last.amount) <= BalanceIn(pre.balances, last.sender)
                => /\ last.res = "ok"
                   /\ BalanceIn(balances, last.sender)
                        = BalanceIn(pre.balances, last.sender)
           /\ Val(last.amount) > BalanceIn(pre.balances, last.sender)
                => last.res = "InsufficientFunds"

\* C13: Burn.  A Burn of an amount up to balance_of(caller) succeeds, lowers
\* the caller's balance by exactly the amount and the stored total supply by
\* the same amount, and changes no other balance; a Burn of more than
\* balance_of(caller) fails with InsufficientFunds and the store is unchanged.
C13_Burn ==
    (last.op = "burn" /\ WellFormed(last.amount))
        => /\ Val(last.amount) <= BalanceIn(pre.balances, last.sender)
                => /\ last.res = "ok"
                   /\ BalanceIn(balances, last.sender)
                        = BalanceIn(pre.balances, last.sender) - Val(last.amount)
                   /\ OtherBalancesKept({last.sender})
                   /\ allowances = pre.allowances
                   /\ total_supply
                        = {Amount_from(Val(t) - Val(last.amount)) : t \in pre.total_supply}
           /\ Val(last.amount) > BalanceIn(pre.balances, last.sender)
                => (last.res = "InsufficientFunds" /\ Store = pre)

\* C13 witness: a Burn of a positive amount the caller holds went through.
C13_Witness ==
    /\ last.op = "burn"
    /\ last.res = "ok"
    /\ Val(last.amount) > 0
    /\ BalanceIn(pre.balances, last.sender) >= Val(last.amount)
    /\ BalanceIn(balances, last.sender) < BalanceIn(pre.balances, last.sender)

\* A configuration as Initialize is to accept it: a name of 3 to 30 bytes, a
\* symbol of 3 to 6 characters all in A-Z, decimals of at most 18.
ValidConfig(msg) ==
    /\ Len(msg.name) >= 3
    /\ Len(msg.name) <= 30
    /\ Len(msg.symbol) >= 3
    /\ Len(msg.symbol) <= 6
    /\ \A i \in 1..Len(msg.symbol) : msg.symbol[i] \in 65..90
    /\ msg.decimals <= 18

\* Every row of the list has a well-formed amount.
RowsWellFormed(rows) == \A i \in 1..Len(rows) : WellFormed(rows[i].amount)

RECURSIVE SumRows(_)
SumRows(rows) ==
    IF rows = <<>> THEN 0 ELSE Val(Head(rows).amount) + SumRows(Tail(rows))

\* C14: Initialize accepts a configuration exactly when its name, symbol and
\* decimals are valid (the initial balances being well-formed and their sum
\* representable); any violation makes it fail with InvalidConfig, and then
\* neither a constants record nor a total supply is stored.
C14_InitValidation ==
    last.op = "init"
        => /\ ( /\ ValidConfig(init_msg)
                /\ RowsWellFormed(init_msg.initial_balances)
                /\ SumRows(init_msg.initial_balances) <= MaxU128 )
                => last.res = "ok"
           /\ ~ValidConfig(init_msg)
                => /\ last.res \in InvalidConfig
                   /\ constants = {}
                   /\ total_supply = {}

\* C15: name, symbol and decimals are validated before any balance is
\* written: after an Initialize that failed because of one of them the ledger
\* is still empty.
C15_ValidationBeforeBalances ==
    (last.op = "init" /\ last.res \in InvalidConfig) => balances = EmptyBucket

\* C16: Initialize rejects the batch atomically.  When any row of
\* initial_balances has a malformed or out-of-range amount, Initialize fails
\* and no row is in the ledger afterwards, those before the bad row included.
C16_InitAtomic ==
    (last.op = "init" /\ ~RowsWellFormed(init_msg.initial_balances))
        => (last.res # "ok" /\ balances = EmptyBucket)

\* The stored total supply is the sum of all ledger balances.
TotalIsSum ==
    /\ total_supply # {}
    /\ \A t \in total_supply : WellFormed(t) /\ Val(t) = SumBalances(balances)

\* C17: after a successful Initialize (the list may name an address twice)
\* every listed address has a readable balance and the stored total supply is
\* the sum of all ledger balances; every Transfer, TransferFrom and Approve
\* keeps that equality.
C17_TotalSupplyIsSum ==
    /\ []( (last.op = "init" /\ last.res = "ok")
             => /\ \A i \in 1..Len(init_msg.initial_balances) :
                      /\ init_msg.initial_balances[i].address \in DOMAIN balances
                      /\ WellFormed(query_balance(init_msg.initial_balances[i].address))
                /\ TotalIsSum )
    /\ [][ (TotalIsSum /\ last'.op \in {"transfer", "transfer_from", "approve"})
             => TotalIsSum' ]_vars

\* C18: Amount addition never wraps or saturates.  add(a, b) is a + b when
\* that is at most u128::MAX and fails with Overflow otherwise; so a Transfer
\* or TransferFrom whose credit would pass u128::MAX fails with Overflow and
\* the recipient's stored balance is not a wrapped value.
C18_AddNeverWraps ==
    ( /\ last.op \in {"transfer", "transfer_from"}
      /\ WellFormed(last.amount)
      /\ last.owner # last.recipient
      /\ last.recipient \in DOMAIN pre.balances )
        => LET a == BalanceIn(pre.balances, last.recipient)
               b == Val(last.amount)
               sum == add(pre.balances[last.recipient], last.amount)
               debited == /\ BalanceIn(pre.balances, last.owner) >= b
                          /\ last.op = "transfer_from"
                               => AllowanceIn(pre.allowances, last.owner, last.sender) >= b
           IN  /\ a + b <= MaxU128 => (sum.ok /\ Val(sum.val) = a + b)
               /\ a + b > MaxU128
                    => /\ sum = Err("Overflow")
                       /\ debited => last.res = "Overflow"
                       /\ BalanceIn(balances, last.recipient) = a

\* A text made of decimal digits only, and at least one of them.
AllDigits(t) ==
    /\ Len(t) > 0
    /\ \A i \in 1..Len(t) : t[i] \in {"0", "1", "2", "3", "4", "5", "6", "7", "8", "9"}

\* The number a text of decimal digits denotes.
RECURSIVE DecimalValue(_)
DecimalValue(t) ==
    IF t = <<>> THEN 0
    ELSE 10 * DecimalValue(SubSeq(t, 1, Len(t) - 1))
           + (CHOOSE d \in 0..9 : DigitChars[d + 1] = t[Len(t)])

\* C19: Amount parsing accepts exactly the non-empty texts of decimal digits
\* whose value is at most u128::MAX (leading zeros allowed), giving that
\* value, and fails with the invalid-amount error for every other text: the
\* empty text, a text with a sign ("-1", a leading "+"), a text with a
\* character that is no digit, a value above u128::MAX.
C19_ParseAccepts ==
    parsed # NotParsed
        => IF AllDigits(raw) /\ DecimalValue(raw) <= MaxU128
           THEN parsed = Ok(DecimalValue(raw))
           ELSE parsed = Err("ParseErr")

\* The text without its leading zeros (the last digit is kept).
RECURSIVE StripZeros(_)
StripZeros(t) ==
    IF Len(t) > 1 /\ Head(t) = "0" THEN StripZeros(Tail(t)) ELSE t

\* C20: round trip and value equality.  parse(Amount::from(x)) is x for every
\* representable x; a text of digits parses to what the same text without its
\* leading zeros parses to; and an allowance set from a text with leading
\* zeros is observed with the same value as one set from the text without them.
C20_RoundTrip ==
    /\ (from_val # -1 /\ parsed # NotParsed) => parsed = Ok(from_val)
    /\ (AllDigits(raw) /\ parsed # NotParsed) => parsed = parse(StripZeros(raw))
    /\ (last.op = "approve" /\ AllDigits(last.amount))
         => LET other == try_approve(pre.allowances, last.owner, last.spender,
                                     StripZeros(last.amount))
            IN  /\ last.res = other.res
                /\ last.res = "ok"
                     => parse(query_allowance(last.owner, last.spender))
                          = parse(may_load_or_default(other.allowances,
                                                      <<last.owner, last.spender>>))

\* C20 witness: an allowance was set from a text with a leading zero and a
\* value above zero.
C20_Witness ==
    /\ last.op = "approve"
    /\ last.res = "ok"
    /\ AllDigits(last.amount)
    /\ StripZeros(last.amount) # last.amount
    /\ Val(last.amount) > 0
    /\ AllowanceIn(allowances, last.owner, last.spender) = Val(last.amount)

\* C21: queries are total and read-only.  BalanceOf returns the stored
\* balance, or zero for an address without a ledger entry; AllowanceOf returns
\* the stored allowance, or zero for a pair that was never set; neither fails
\* and neither changes the store.
C21_Queries ==
    /\ last.op = "query_balance"
         => /\ last.res = "ok"
            /\ last.amount = IF last.owner \in DOMAIN pre.balances
                             THEN pre.balances[last.owner] ELSE <<"0">>
            /\ Store = pre
    /\ last.op = "query_allowance"
         => /\ last.res = "ok"
            /\ last.amount = IF <<last.owner, last.spender>> \in DOMAIN pre.allowances
                             THEN pre.allowances[<<last.owner, last.spender>>]
                             ELSE <<"0">>
            /\ Store = pre

\* C21 witness: the allowance a spender other than the owner was given is
\* read back.
C21_Witness ==
    /\ last.op = "query_allowance"
    /\ last.owner # last.spender
    /\ <<last.owner, last.spender>> \in DOMAIN allowances
    /\ Val(last.amount) > 0

\* C22: allowance lifecycle.  The value of allowance_of(o, s) changes only in
\* a successful Approve by o naming s or in a successful TransferFrom by s
\* naming o; no other request, no query and no failed request changes it.
C22_AllowanceLifecycle ==
    \A o \in Addresses, s \in Addresses :
        AllowanceIn(allowances, o, s) # AllowanceIn(pre.allowances, o, s)
            => /\ last.res = "ok"
               /\ last.owner = o
               /\ \/ last.op = "approve" /\ last.spender = s
                  \/ last.op = "transfer_from" /\ last.sender = s

\* C23: the constants are immutable after initialization: no Transfer,
\* TransferFrom, Approve or Burn, successful or failed, changes the stored
\* name, symbol or decimals, which stay those Initialize was given.
C23_ConstantsImmutable ==
    /\ last.op \in HandleOps => constants = pre.constants
    /\ instantiated = "yes"
         => constants = {[name |-> init_msg.name, symbol |-> init_msg.symbol,
                          decimals |-> init_msg.decimals]}

\* C23 witness: two requests were handled, the last one an Approve that wrote.
C23_Witness ==
    /\ nops = 2
    /\ last.op = "approve"
    /\ last.res = "ok"
    /\ allowances # pre.allowances
    /\ constants # {}

\* C30: error precedence in TransferFrom.  When both allowance_of(owner,
\* caller) and balance_of(owner) are below the amount, the request fails with
\* InsufficientAllowance, not InsufficientFunds, and the owner's balance is
\* untouched.
C30_AllowanceBeforeBalance ==
    ( /\ last.op = "transfer_from"
      /\ WellFormed(last.amount)
      /\ AllowanceIn(pre.allowances, last.owner, last.sender) < Val(last.amount)
      /\ BalanceIn(pre.balances, last.owner) < Val(last.amount) )
        => /\ last.res = "InsufficientAllowance"
           /\ last.res # "InsufficientFunds"
           /\ balances = pre.balances

\* A domain other than the one of the last call has the owner it had.
OtherDomainsKept ==
    /\ DOMAIN dns_store \ {dns_last.domain} = DOMAIN dns_pre \ {dns_last.domain}
    /\ \A d \in DOMAIN dns_store \ {dns_last.domain} : dns_store[d] = dns_pre[d]

\* C24: DNS registration is first-come and exclusive.  RegisterDomain succeeds
\* only when the domain has no owner, and then records the sender as owner;
\* RegisterDomain of a registered domain fails and leaves the owner unchanged,
\* whoever sends it, the current owner included.
C24_RegisterExclusive ==
    dns_last.op = "register"
        => /\ dns_last.res = "ok" <=> dns_last.domain \notin DOMAIN dns_pre
           /\ dns_last.res = "ok"
                => /\ dns_last.domain \in DOMAIN dns_store
                   /\ dns_store[dns_last.domain] = dns_last.sender
           /\ dns_last.res # "ok" => dns_store = dns_pre
           /\ OtherDomainsKept

\* C24 witness: the owner of a domain tried to register it again.
C24_Witness ==
    /\ dns_last.op = "register"
    /\ dns_last.res # "ok"
    /\ dns_last.domain \in DOMAIN dns_pre
    /\ dns_pre[dns_last.domain] = dns_last.sender

C26_SellAllowanceGate ==
    ( /\ dns_last.op = "sell"
      /\ dns_last.domain \in DOMAIN dns_pre
      /\ dns_pre[dns_last.domain] = dns_last.sender
      /\ erc_allowance[dns_last.buyer] < 500 )
        => /\ dns_last.res = "InsufficientAllowance"
           /\ messages = <<>>
           /\ dns_store = dns_pre

\* C26 witness: the owner's sale was refused for an allowance of 499.
C26_Witness ==
    /\ dns_last.op = "sell"
    /\ dns_last.res = "InsufficientAllowance"
    /\ erc_allowance[dns_last.buyer] = 499
    /\ dns_store[dns_last.domain] = dns_last.sender

\* C27: successful DNS sale.  When the owner calls SellDomain and
\* allowance_of(buyer, DNS contract) is at least 500, the owner becomes the
\* buyer and the response carries exactly one message, the ERC20 TransferFrom
\* of 500 from the buyer to the seller; once that message is executed no
\* message is left and GetOwner returns the buyer.
C27_SuccessfulSale ==
    /\ ( /\ dns_last.op = "sell"
         /\ dns_last.domain \in DOMAIN dns_pre
         /\ dns_pre[dns_last.domain] = dns_last.sender
         /\ dns_last.allowance >= 500 )
           => /\ dns_last.res = "ok"
              /\ dns_store[dns_last.domain] = dns_last.buyer
              /\ OtherDomainsKept
              /\ messages = <<[op |-> "transfer_from", owner |-> dns_last.buyer,
                               recipient |-> dns_last.sender, amount |-> 500]>>
    /\ dns_last.op = "execute"
           => /\ messages = <<>>
              /\ query_domain(dns_store, dns_last.domain) = Ok(dns_last.buyer)

\* C27 witness: the TransferFrom of a sale to a buyer other than the seller
\* was executed by the ERC20.
C27_Witness ==
    /\ dns_last.op = "execute"
    /\ dns_last.res = "ok"
    /\ dns_last.buyer # dns_last.sender
    /\ dns_store[dns_last.domain] = dns_last.buyer

\* C28: pot creation is owner-gated.  CreatePot succeeds only when the sender
\* is the configured owner; for any other sender it fails with Unauthorized,
\* no pot is created and the pot sequence is unchanged.
C28_CreatePotOwnerGate ==
    pot_last.op = "create_pot"
        => /\ pot_last.res = "ok" => pot_config = {[owner |-> pot_last.sender,
                                                    cw20_addr |-> "cw20"]}
           /\ (\A c \in pot_config : c.owner # pot_last.sender)
                => /\ pot_last.res = "Unauthorized"
                   /\ pots = pot_pre.pots
                   /\ pot_seq = pot_pre.pot_seq

\* C28 witness: a sender who is not the owner was refused after the owner had
\* created a pot.
C28_Witness ==
    /\ pot_last.op = "create_pot"
    /\ pot_last.res = "Unauthorized"
    /\ pot_last.target_addr # ""
    /\ pots # EmptyBucket

FilledWithZero(bucket, keys) ==
    [k \in DOMAIN bucket \cup keys |-> IF k \in DOMAIN bucket THEN bucket[k] ELSE <<"0">>]

\* The two ledgers hold the same value for every address, an absent entry
\* counting as zero; likewise for two allowance tables.
SameBalances(b1, b2) == \A a \in Addresses : BalanceIn(b1, a) = BalanceIn(b2, a)

SameAllowances(a1, a2) ==
    \A o \in Addresses, sp \in Addresses : AllowanceIn(a1, o, sp) = AllowanceIn(a2, o, sp)

\* C31: absent is equivalent to zero.  A request run from a state where the
\* sender's or the recipient's ledger key, or the allowance pair, is absent
\* has the outcome and the resulting balance and allowance values it has when
\* run from the state where that key holds 0; a Transfer of 0 by a caller
\* without ledger entry and a TransferFrom of 0 without allowance entry succeed.
C31_AbsentIsZero ==
    /\ (last.op = "transfer" /\ WellFormed(last.amount))
         => LET r == try_transfer(
                         FilledWithZero(pre.balances, {last.sender, last.recipient}),
                         last.sender, last.recipient, last.amount)
            IN  /\ last.res = r.res
                /\ SameBalances(balances, r.balances)
    /\ (last.op = "transfer_from" /\ WellFormed(last.amount))
         => LET r == try_transfer_from(
                         FilledWithZero(pre.balances, {last.owner, last.recipient}),
                         FilledWithZero(pre.allowances, {<<last.owner, last.sender>>}),
                         last.sender, last.owner, last.recipient, last.amount)
            IN  /\ last.res = r.res
                /\ SameBalances(balances, r.balances)
                /\ SameAllowances(allowances, r.allowances)
    /\ ( /\ last.op \in {"transfer", "transfer_from"}
         /\ WellFormed(last.amount)
         /\ Val(last.amount) = 0
         /\ last.recipient \in DOMAIN pre.balances )
         => last.res = "ok"

\* C32: Initialize checks the running total.  When the initial balances are
\* each valid and their sum exceeds u128::MAX, Initialize fails with Overflow
\* and stores neither a total supply nor any balance.
C32_InitTotalChecked ==
    ( /\ last.op = "init"
      /\ RowsWellFormed(init_msg.initial_balances)
      /\ SumRows(init_msg.initial_balances) > MaxU128 )
        => /\ last.res = "Overflow"
           /\ total_supply = {}
           /\ balances = EmptyBucket

\* C33: malformed amounts are rejected before any mutation.  A Transfer,
\* Approve or TransferFrom whose amount does not parse fails with the
\* invalid-amount error and writes nothing, in every state (also when the
\* balance or allowance entry concerned is absent); no malformed amount is
\* ever stored as a balance or an allowance.
C33_MalformedRejected ==
    /\ ( /\ last.op \in {"transfer", "approve", "transfer_from"}
         /\ ~WellFormed(last.amount) )
         => (last.res = "ParseErr" /\ Store = pre)
    /\ \A k \in DOMAIN balances : WellFormed(balances[k])
    /\ \A k \in DOMAIN allowances : WellFormed(allowances[k])

\* C34: only authorized debits.  balance_of(X) decreases in a step only if the
\* step is a successful Transfer or Burn signed by X, or a successful
\* TransferFrom naming X as owner whose caller's allowance from X covered the
\* amount just before the step.
C34_AuthorizedDebits ==
    \A x \in Addresses :
        (last.op # "init" /\ BalanceIn(balances, x) < BalanceIn(pre.balances, x))
            => /\ last.res = "ok"
               /\ \/ last.op \in {"transfer", "burn"} /\ last.sender = x
                  \/ /\ last.op = "transfer_from"
                     /\ last.owner = x
                     /\ AllowanceIn(pre.allowances, x, last.sender) >= Val(last.amount)

\* C35: spending cap over sequences.  For every owner o and spender s, the
\* total moved by the successful TransferFrom calls of s for o since the last
\* successful Approve(o -> s, v) never exceeds v.
C35_SpendingCap ==
    \A p \in DOMAIN granted : granted[p] >= 0 => moved[p] <= granted[p]

\* An allowance of 2 was spent in full and a further TransferFrom of the same
\* spender for the same owner was refused.
C35_Witness ==
    /\ last.op = "transfer_from"
    /\ last.res = "InsufficientFunds"
    /\ <<last.owner, last.sender>> \in DOMAIN granted
    /\ granted[<<last.owner, last.sender>>] = 2
    /\ moved[<<last.owner, last.sender>>] = 2
    /\ AllowanceIn(pre.allowances, last.owner, last.sender) < Val(last.amount)

\* C36: DNS sale and payment are all-or-nothing across the two contracts.  A
\* domain's owner changed from seller to buyer through SellDomain only if the
\* 500 tokens moved from buyer to seller in the ERC20; when the emitted
\* TransferFrom fails, the domain's owner is still the seller.
C36_SaleAllOrNothing ==
    dns_last.op = "execute"
        => /\ dns_last.res # "ok" => dns_store[dns_last.domain] = dns_last.sender
           /\ ( /\ dns_last.buyer # dns_last.sender
                /\ dns_store[dns_last.domain] = dns_last.buyer )
                  => dns_last.res = "ok"

\* C37: DNS ownership is stable.  A registered domain stays registered, and
\* its recorded owner changes only in a successful SellDomain issued by the
\* current owner, to the buyer named in the request; RegisterDomain, failed
\* requests and GetOwner queries never change the owner of an existing domain.
C37_OwnershipStable ==
    /\ DOMAIN dns_pre \subseteq DOMAIN dns_store
    /\ \A d \in DOMAIN dns_pre :
         dns_store[d] # dns_pre[d]
            => /\ dns_last.op = "sell"
               /\ dns_last.res = "ok"
               /\ dns_last.domain = d
               /\ dns_last.sender = dns_pre[d]
               /\ dns_store[d] = dns_last.buyer

\* C37 witness: a domain registered by its first owner was sold to another
\* account, and the other registered domain kept its owner.
C37_Witness ==
    /\ dns_last.op = "sell"
    /\ dns_last.res = "ok"
    /\ dns_last.domain \in DOMAIN dns_pre
    /\ dns_store[dns_last.domain] # dns_pre[dns_last.domain]
    /\ \E d \in DOMAIN dns_pre : d # dns_last.domain /\ dns_store[d] = dns_pre[d]

====
